---- MODULE Spec2Model ----
(***************************************************************************)
(* Shear-response post-processing of the terminal_groups_mixed workflow:   *)
(* the per-job stages of src/operations.py that load per-load column       *)
(* files, average a tail window and store the result in job.document, and  *)
(* the cross-job script plotting/ransac/cof-Dinterdigitation.py.           *)
(***************************************************************************)
EXTENDS Integers, Sequences, FiniteSets, TLC

VARIABLES
    sim,      \* sim[j]: the simulation output present in job j's directory
    doc,      \* doc[j]: job.document, a function from the keys present to values
    last,     \* the operation that ran last: [op, job]
    prev,     \* the stage that ran before it, and how it ended: [op, job, err]
    err,      \* the exception the last operation raised, "none" if it returned
    nops,     \* number of operations run so far
    njobs,    \* number of jobs in the project
    sp,       \* sp[j]: the statepoint of job j
    out,      \* what the cross-job script has produced
    rin,      \* reducer check: the stage and the file content given to it
    rout      \* reducer check: what the stage's reduction of rin produced

vars == <<sim, doc, last, prev, err, nops, njobs, sp, out, rin, rout>>

(***************************************************************************)
(* Bounds of the model.                                                    *)
(***************************************************************************)
MantBits == 3
MaxRows == 7
NJobs == 2
MaxOps == 2
MaxProject == 3

(***************************************************************************)
(* Floating point.  numpy computes in binary floating point with round to  *)
(* nearest, ties to even.  A float is <<m, e>>, the number m * 2^e, with   *)
(* m = 0 or 2^(MantBits-1) <= |m| < 2^MantBits (binary64 has 53 bits).     *)
(***************************************************************************)
RECURSIVE Pow2(_)
Pow2(k) == IF k <= 0 THEN 1 ELSE 2 * Pow2(k - 1)

Abs(n) == IF n < 0 THEN -n ELSE n

Min2(a, b) == IF a <= b THEN a ELSE b

\* the least s >= 0 with n \div 2^s < 2^MantBits
RECURSIVE Shift(_)
Shift(n) == IF n < Pow2(MantBits) THEN 0 ELSE 1 + Shift(n \div 2)

\* the least s >= 0 with n * 2^s >= 2^(MantBits-1), for n > 0
RECURSIVE Lift(_)
Lift(n) == IF n >= Pow2(MantBits - 1) THEN 0 ELSE 1 + Lift(2 * n)

\* the float nearest to n * 2^e, ties to the even mantissa
Round(n, e) ==
    IF n = 0 THEN <<0, 0>>
    ELSE LET a == Abs(n)
             sg == IF n < 0 THEN -1 ELSE 1
             s == Shift(a)
         IN  IF s = 0
             THEN <<sg * a * Pow2(Lift(a)), e - Lift(a)>>
             ELSE LET q == a \div Pow2(s)
                      r == a % Pow2(s)
                      half == Pow2(s - 1)
                      up == r > half \/ (r = half /\ q % 2 = 1)
                      q1 == IF up THEN q + 1 ELSE q
                  IN  IF q1 = Pow2(MantBits)
                      THEN <<sg * Pow2(MantBits - 1), e + s + 1>>
                      ELSE <<sg * q1, e + s>>

\* the float of the integer n
F(n) == Round(n, 0)

\* x and y as integers over the common exponent
Aligned(x, y) ==
    LET em == Min2(x[2], y[2])
    IN  <<x[1] * Pow2(x[2] - em), y[1] * Pow2(y[2] - em), em>>

FAdd(x, y) == LET a == Aligned(x, y) IN Round(a[1] + a[2], a[3])

FSub(x, y) == FAdd(x, <<-y[1], y[2]>>)

FLe(x, y) == LET a == Aligned(x, y) IN a[1] <= a[2]

\* x / n for an integer n > 0, correctly rounded (two guard bits and a sticky bit)
FDiv(x, n) ==
    IF x[1] = 0 THEN <<0, 0>>
    ELSE LET k == 2 + Shift(n) + MantBits
             big == Abs(x[1]) * Pow2(k)
             q == big \div n
             sticky == IF big % n = 0 THEN 0 ELSE 1
             sg == IF x[1] < 0 THEN -1 ELSE 1
         IN  Round(sg * (2 * q + sticky), x[2] - k - 1)

(***************************************************************************)
(* Files and arrays.  A job directory maps the names of the files present  *)
(* to their rows; a row is a tuple of floats, column 0 first.              *)
(***************************************************************************)
NaN == <<>>

\* np.loadtxt: a missing file raises; no row or one row gives a 1-D array
loadtxt(dir, name) ==
    IF name \notin DOMAIN dir
    THEN [err |-> "FileNotFoundError"]
    ELSE LET rows == dir[name]
         IN  IF Len(rows) = 0 THEN [err |-> "none", ndim |-> 1, elems |-> <<>>]
             ELSE IF Len(rows) = 1
                  THEN [err |-> "none", ndim |-> 1, elems |-> rows[1]]
                  ELSE [err |-> "none", ndim |-> 2, elems |-> rows]

\* len(data): the first dimension
len(arr) == Len(arr.elems)

\* a skip rounded up instead of truncated
TailStartCeil(n, fr) == (n * fr[1] + fr[2] - 1) \div fr[2]

\* int(len(data) * f) for the skip fraction f = fr[1] / fr[2]
TailStart(n, fr) == (n * fr[1]) \div fr[2]

\* data[k:, col]: a 1-D array has no second index; else the rows from index k on
TailSlice(arr, k, col) ==
    IF arr.ndim = 1 \/ col + 1 > Len(arr.elems[1])
    THEN [err |-> "IndexError"]
    ELSE [err |-> "none",
          win |-> [i \in 1..(len(arr) - k) |-> arr.elems[k + i][col + 1]]]

\* the running sum of w[1..i], each addition rounded
RECURSIVE FSum(_, _)
FSum(w, i) == IF i = 0 THEN F(0) ELSE FAdd(FSum(w, i - 1), w[i])

\* np.mean: the rounded sum divided by the count; nan for no element
mean(w) == IF Len(w) = 0 THEN NaN ELSE FDiv(FSum(w, Len(w)), Len(w))

\* np.std is kept as the library's value for that window
std(w) == <<"std", w>>

\* elementwise a + b of two windows of one length
VecAdd(a, b) == [i \in 1..Len(a) |-> FAdd(a[i], b[i])]

(***************************************************************************)
(* The stages.                                                             *)
(***************************************************************************)
loads == <<5, 15, 25>>

\* a key without its unit
LoadKeyBare(load) == ToString(load)

LoadKey(load) == ToString(load) \o "nN"

ShearName(load) == "shear_" \o ToString(load) \o "nN"

Stages == {"S2", "tilt", "interdigitation", "friction", "energy"}

\* the file a stage loads for one load
FileName(stage, load) ==
    CASE stage = "S2" -> ShearName(load) \o "-S2.txt"
      [] stage = "tilt" -> ShearName(load) \o "-tilt.txt"
      [] stage = "interdigitation" -> ShearName(load) \o "-interdigitation.txt"
      [] stage = "friction" -> "friction_" \o ToString(load) \o "nN.txt"
      [] stage = "energy" -> ShearName(load) \o "-energy.xvg"

\* the fraction of the rows a stage skips
SkipFraction(stage) == IF stage = "energy" THEN <<5, 10>> ELSE <<6, 10>>

\* the columns a stage averages
Columns(stage) ==
    IF stage \in {"S2", "tilt", "energy"} THEN <<1, 2>> ELSE <<1>>

\* the windows a stage averages: its columns, and for the energy their sum
Windows(stage, w) ==
    IF stage = "energy" THEN <<w[1], w[2], VecAdd(w[1], w[2])>> ELSE w

\* one file of a stage: load it, slice each column from TailStart on, average
ReduceFile(stage, dir, name) ==
    LET arr == loadtxt(dir, name)
    IN  IF arr.err # "none" THEN [err |-> arr.err]
        ELSE LET k == TailStart(len(arr), SkipFraction(stage))
                 cols == Columns(stage)
                 sl == [c \in 1..Len(cols) |-> TailSlice(arr, k, cols[c])]
             IN  IF \E c \in 1..Len(cols) : sl[c].err # "none"
                 THEN [err |-> "IndexError"]
                 ELSE LET w == Windows(stage, [c \in 1..Len(cols) |-> sl[c].win])
                      IN  [err |-> "none",
                           win |-> w,
                           mean |-> [c \in 1..Len(w) |-> mean(w[c])]]

(***************************************************************************)
(* Job documents.                                                          *)
(***************************************************************************)
EmptyDict == [k \in {} |-> 0]

\* an assignment that appends to the value the key already has
PutAppend(d, k, v) ==
    [x \in DOMAIN d \cup {k} |->
        IF x = k THEN (IF k \in DOMAIN d THEN <<d[k], v>> ELSE v) ELSE d[x]]

\* an assignment that replaces the whole dictionary
PutOnly(d, k, v) == [x \in {k} |-> v]

\* d[k] = v
Put(d, k, v) == [x \in DOMAIN d \cup {k} |-> IF x = k THEN v ELSE d[x]]

\* the dictionary a stage fills in its loop over the loads: vals[i] under the
\* key of loads[i]
RECURSIVE LoadDict(_, _)
LoadDict(vals, i) ==
    IF i = 0 THEN EmptyDict
    ELSE Put(LoadDict(vals, i - 1), LoadKey(loads[i]), vals[i])

\* the assignments kv[1], kv[2], ... to the document d, in order; the one with
\* index failAt raises and neither it nor a later one is made (0: none raises)
RECURSIVE Assign(_, _, _)
Assign(d, kv, n) ==
    IF n = 0 THEN d ELSE Put(Assign(d, kv, n - 1), kv[n][1], kv[n][2])

Written(d, kv, failAt) ==
    Assign(d, kv, IF failAt = 0 THEN Len(kv) ELSE failAt - 1)

(***************************************************************************)
(* Simulation output.  A job directory holds, for each stage and load, the *)
(* file the stage loads; which rows it holds depends on the simulation.    *)
(***************************************************************************)
DataIds == {"A", "B", "C"}

Rows(n, base) ==
    [i \in 1..n |-> <<F(i), F(base + (i % 3)), F(base + 2 * (i % 2) - 4)>>]

LoadIndex(load) == CHOOSE i \in 1..Len(loads) : loads[i] = load

\* "C" is a run whose output is defective: files without rows, with a single
\* row, or absent
Absent(d, stage, load) ==
    d = "C" /\ <<stage, load>> \in {<<"tilt", 5>>, <<"friction", 15>>}

Content(d, stage, load) ==
    CASE d = "A" -> Rows(5, LoadIndex(load))
      [] d = "B" -> Rows(7, 2 * LoadIndex(load))
      [] d = "C" ->
           IF <<stage, load>> \in {<<"S2", 15>>, <<"energy", 5>>} THEN <<>>
           ELSE IF <<stage, load>> \in {<<"interdigitation", 25>>, <<"energy", 15>>}
                THEN Rows(1, 1)
                ELSE Rows(6, 3)

LoadSet == {loads[i] : i \in 1..Len(loads)}

Dir(d) ==
    LET present == {p \in Stages \X LoadSet : ~Absent(d, p[1], p[2])}
    IN  [nm \in {FileName(p[1], p[2]) : p \in present} |->
            LET p == CHOOSE q \in present : FileName(q[1], q[2]) = nm
            IN  Content(d, p[1], p[2])]

(***************************************************************************)
(* The per-job operations of operations.py.  Each runs to its end or to    *)
(* the first exception.  fail names what the environment lets go wrong in  *)
(* this run: nothing, the external analysis (where it alternates with the  *)
(* loading, for the load with index at), or the document assignment with   *)
(* index at.                                                               *)
(***************************************************************************)
NoFail == [kind |-> "none", at |-> 0]

Fails(nwrites, ncalls) ==
    {NoFail}
    \cup {[kind |-> "write", at |-> w] : w \in 1..nwrites}
    \cup {[kind |-> "analysis", at |-> i] : i \in 1..ncalls}

Jobs == 1..njobs

\* the operation op on job j ends with exception e ("none": it returns) and
\* job j's document d
Ends(op, j, e, d) ==
    /\ last' = [op |-> op, job |-> j]
    /\ prev' = [op |-> last.op, job |-> last.job, err |-> err]
    /\ err' = e
    /\ doc' = [doc EXCEPT ![j] = d]
    /\ nops' = nops + 1
    /\ UNCHANGED <<sim, njobs, sp, out, rin, rout>>

\* the loads whose file a stage cannot reduce
BadLoads(r) == {i \in 1..Len(loads) : r[i].err # "none"}

First(S) == CHOOSE i \in S : \A k \in S : i <= k

\* the end of a stage that has computed kv from the per-load reductions r
StoreOrRaise(op, j, r, kv, fail) ==
    IF BadLoads(r) # {}
    THEN Ends(op, j, r[First(BadLoads(r))].err, doc[j])
    ELSE IF fail.kind = "write"
         THEN Ends(op, j, "WriteError", Written(doc[j], kv, fail.at))
         ELSE Ends(op, j, "none", Written(doc[j], kv, 0))

\* the directory each simulation output leaves
Directory == [d \in DataIds |-> Dir(d)]

\* the reduction of every file a stage may load, for every simulation output
\* (ReduceFile is a function of the directory, evaluated once)
Reduction ==
    [d \in DataIds |-> [stage \in Stages |->
        [nm \in {FileName(stage, l) : l \in LoadSet} |->
            ReduceFile(stage, Directory[d], nm)]]]

\* a stage of job j loads and reduces the file nm of the job's directory
Reduce(j, stage, nm) == Reduction[sim[j]][stage][nm]

PerLoad(stage, j) ==
    [i \in 1..Len(loads) |-> Reduce(j, stage, FileName(stage, loads[i]))]

\* the same for a job whose directory holds the simulation output d
PerLoadOf(stage, d) ==
    [i \in 1..Len(loads) |-> Reduction[d][stage][FileName(stage, loads[i])]]

MeanDict(r, c) == LoadDict([i \in 1..Len(loads) |-> r[i].mean[c]], Len(loads))

\* what calc_S2_shear assigns, given the per-load reductions r
S2Items(r) == <<<<"S2_bottom", MeanDict(r, 1)>>, <<"S2_top", MeanDict(r, 2)>>>>

calc_S2_shear(j, fail) ==
    /\ nops < MaxOps
    /\ IF fail.kind = "analysis"
       THEN Ends("calc_S2_shear", j, "AnalysisError", doc[j])
       ELSE LET r == PerLoad("S2", j)
            IN  StoreOrRaise("calc_S2_shear", j, r, S2Items(r), fail)

\* what calc_tilt_shear assigns, given the per-load reductions r
TiltItems(r) == <<<<"tilt_bottom", MeanDict(r, 1)>>, <<"tilt_top", MeanDict(r, 2)>>>>

calc_tilt_shear(j, fail) ==
    /\ nops < MaxOps
    /\ IF fail.kind = "analysis"
       THEN Ends("calc_tilt_shear", j, "AnalysisError", doc[j])
       ELSE LET r == PerLoad("tilt", j)
            IN  StoreOrRaise("calc_tilt_shear", j, r, TiltItems(r), fail)

\* what calc_interdigitation assigns, given the per-load reductions r
InterdigitationItems(r) == <<<<"interdigitation", MeanDict(r, 1)>>>>

\* the analysis call and the load of one load alternate: a file that cannot be
\* reduced raises before the analysis of a later load can
calc_interdigitation(j, fail) ==
    /\ nops < MaxOps
    /\ LET r == PerLoad("interdigitation", j)
       IN  IF /\ fail.kind = "analysis"
              /\ \A i \in BadLoads(r) : fail.at <= i
           THEN Ends("calc_interdigitation", j, "AnalysisError", doc[j])
           ELSE StoreOrRaise("calc_interdigitation", j, r,
                    InterdigitationItems(r), fail)

\* scipy's linregress(x, y) is kept as the library's values for x and y
linregress(x, y) ==
    [slope |-> <<"slope", x, y>>, intercept |-> <<"intercept", x, y>>]

\* what log_cof assigns, given the per-load reductions r
CofItems(r) ==
    LET friction_forces == [i \in 1..Len(loads) |-> r[i].mean[1]]
        fit == linregress(loads, friction_forces)
    IN  <<<<"COF", fit.slope>>, <<"intercept", fit.intercept>>>>

log_cof(j, fail) ==
    /\ nops < MaxOps
    /\ LET r == PerLoad("friction", j)
       IN  StoreOrRaise("log_cof", j, r, CofItems(r), fail)

EnergyKeys(name) == <<name \o "-qq", name \o "-lj", name \o "-Etotal">>

EnergyOp(load) == "log_interaction_energy_" \o LoadKey(load)

\* what _log_interaction_energy(job, name) assigns, given the reduction r of
\* the energy file
EnergyItems(name, r) ==
    [c \in 1..3 |-> <<EnergyKeys(name)[c], <<r.mean[c], std(r.win[c])>>>>]

log_interaction_energy(j, load, fail) ==
    /\ nops < MaxOps
    /\ LET name == ShearName(load)
           r == Reduce(j, "energy", name \o "-energy.xvg")
       IN  IF r.err # "none"
           THEN Ends(EnergyOp(load), j, r.err, doc[j])
           ELSE IF fail.kind = "write"
                THEN Ends(EnergyOp(load), j, "WriteError",
                          Written(doc[j], EnergyItems(name, r), fail.at))
                ELSE Ends(EnergyOp(load), j, "none",
                          Written(doc[j], EnergyItems(name, r), 0))

\* the shear simulation of job j is run again and leaves output d
Simulate(j, d) ==
    /\ nops < MaxOps
    /\ d # sim[j]
    /\ sim' = [sim EXCEPT ![j] = d]
    /\ last' = [op |-> "simulate", job |-> j]
    /\ prev' = [op |-> last.op, job |-> last.job, err |-> err]
    /\ err' = "none"
    /\ nops' = nops + 1
    /\ UNCHANGED <<doc, njobs, sp, out, rin, rout>>

Idle == [done |-> FALSE]

\* the statepoints of the sweep: the chain count and the terminal group pair
Statepoint(j) ==
    [n |-> 100, terminal_groups |-> <<"group" \o ToString(j), "methyl">>]

Init ==
    /\ njobs = NJobs
    /\ sp = [j \in 1..NJobs |-> Statepoint(j)]
    /\ sim = [j \in 1..NJobs |-> "A"]
    /\ doc = [j \in 1..NJobs |-> EmptyDict]
    /\ last = [op |-> "init", job |-> 0]
    /\ prev = [op |-> "init", job |-> 0, err |-> "none"]
    /\ err = "none"
    /\ nops = 0
    /\ out = Idle
    /\ rin = Idle
    /\ rout = Idle

Simulates == \E j \in Jobs, d \in DataIds : Simulate(j, d)

S2Shear == \E j \in Jobs, fail \in Fails(2, 1) : calc_S2_shear(j, fail)

TiltShear == \E j \in Jobs, fail \in Fails(2, 1) : calc_tilt_shear(j, fail)

Interdigitation ==
    \E j \in Jobs, fail \in Fails(1, Len(loads)) : calc_interdigitation(j, fail)

LogCof == \E j \in Jobs, fail \in Fails(2, 0) : log_cof(j, fail)

LogEnergy ==
    \E j \in Jobs, load \in LoadSet, fail \in Fails(3, 0) :
        log_interaction_energy(j, load, fail)

Next ==
    \/ Simulates
    \/ S2Shear
    \/ TiltShear
    \/ Interdigitation
    \/ LogCof
    \/ LogEnergy

Spec == Init /\ [][Next]_vars

(***************************************************************************)
(* plotting/ransac/cof-Dinterdigitation.py: the cross-job correlation.     *)
(* The script runs to its end or to the first exception.                   *)
(***************************************************************************)
\* job.document['interdigitation']['25nN'], ['5nN'] and job.document['COF']
\* can be read
Readable(d) ==
    /\ "interdigitation" \in DOMAIN d
    /\ "25nN" \in DOMAIN d["interdigitation"]
    /\ "5nN" \in DOMAIN d["interdigitation"]
    /\ "COF" \in DOMAIN d

RECURSIVE ReadableJobs(_)
ReadableJobs(n) ==
    IF n = 0 THEN <<>>
    ELSE IF Readable(doc[n]) THEN Append(ReadableJobs(n - 1), n)
         ELSE ReadableJobs(n - 1)

\* a loop that leaves out the jobs it cannot read
ReadLoopSkipping == [err |-> "none", jobs |-> ReadableJobs(njobs)]

\* the loop over the project: the jobs whose values it has appended when it
\* ends, and the KeyError of the first document that lacks a key
ReadLoop ==
    LET bad == {j \in Jobs : ~Readable(doc[j])}
    IN  IF bad = {} THEN [err |-> "none", jobs |-> [i \in 1..njobs |-> i]]
        ELSE [err |-> "KeyError", jobs |-> [i \in 1..(First(bad) - 1) |-> i]]

all_x(jobs) ==
    [i \in 1..Len(jobs) |->
        FSub(doc[jobs[i]]["interdigitation"]["25nN"],
             doc[jobs[i]]["interdigitation"]["5nN"])]

all_y(jobs) == [i \in 1..Len(jobs) |-> doc[jobs[i]]["COF"]]

all_terminal_groups(jobs) == [i \in 1..Len(jobs) |-> sp[jobs[i]].terminal_groups]

\* a mask copied instead of negated
SameMask(mask) == mask

\* np.logical_not
logical_not(mask) == [i \in 1..Len(mask) |-> ~mask[i]]

\* [groups[i] for i, val in enumerate(mask) if val], over the first n entries
RECURSIVE Selected(_, _, _)
Selected(groups, mask, n) ==
    IF n = 0 THEN <<>>
    ELSE IF mask[n] THEN Append(Selected(groups, mask, n - 1), groups[n])
         ELSE Selected(groups, mask, n - 1)

\* x[mask]
Masked(x, mask) == Selected(x, mask, Len(mask))

\* all values of x are one value (no value, too)
AllSame(x) == \A i, k \in 1..Len(x) : x[i] = x[k]

NoOutput ==
    [done |-> TRUE, read |-> 0, lr |-> FALSE, ransac |-> FALSE,
     inlier_mask |-> <<>>, outlier_mask |-> <<>>, table |-> <<>>,
     printed |-> FALSE, plot |-> FALSE]

ScriptEnds(e, o) ==
    /\ out' = o
    /\ err' = e
    /\ last' = [op |-> "correlate", job |-> 0]
    /\ UNCHANGED <<sim, doc, prev, nops, njobs, sp, rin, rout>>

\* What the libraries decide is the environment's choice: whether RANSAC finds
\* a consensus set (consensus) and which samples are its inliers (mask, at
\* least one), and whether linregress raises for identical x values (strict:
\* it does from some scipy version on, and returns nan before).
Correlate(consensus, mask, strict) ==
    LET loop == ReadLoop
        n == Len(loop.jobs)
        x == all_x(loop.jobs)
        read == [NoOutput EXCEPT !.read = n]
        fitted == [read EXCEPT !.lr = TRUE]
        outlier_mask == logical_not(mask)
        outliers == Selected(all_terminal_groups(loop.jobs), outlier_mask, n)
        printed == [fitted EXCEPT !.ransac = TRUE, !.inlier_mask = mask,
                                  !.outlier_mask = outlier_mask,
                                  !.table = outliers, !.printed = TRUE]
    IN  /\ Len(mask) = n
        /\ consensus => \E i \in 1..n : mask[i]
        /\ IF loop.err # "none" THEN ScriptEnds(loop.err, read)
           ELSE IF n = 0 THEN ScriptEnds("ValueError", read)
           ELSE IF strict /\ AllSame(x) THEN ScriptEnds("ValueError", fitted)
           ELSE IF n < 2 \/ ~consensus THEN ScriptEnds("ValueError", fitted)
           ELSE IF strict /\ AllSame(Masked(x, mask))
                THEN ScriptEnds("ValueError", printed)
                ELSE ScriptEnds("none", [printed EXCEPT !.plot = TRUE])

\* the documents the two stages the script depends on can have left for a job
\* with simulation output d
DocsAfter(d) ==
    LET ri == PerLoadOf("interdigitation", d)
        rc == PerLoadOf("friction", d)
        first == {EmptyDict} \cup
                 (IF BadLoads(ri) # {} THEN {}
                  ELSE {Written(EmptyDict, InterdigitationItems(ri), 0)})
    IN  first \cup
        (IF BadLoads(rc) # {} THEN {}
         ELSE {Written(d0, CofItems(rc), failAt) : d0 \in first, failAt \in {0, 2}})

JobStates == {<<d, dc>> : d \in DataIds, dc \in UNION {DocsAfter(e) : e \in DataIds}}

CorrInit ==
    /\ njobs \in 0..MaxProject
    /\ sp = [j \in 1..njobs |-> Statepoint(j)]
    /\ \E st \in [1..njobs -> {s \in JobStates : s[2] \in DocsAfter(s[1])}] :
           /\ sim = [j \in 1..njobs |-> st[j][1]]
           /\ doc = [j \in 1..njobs |-> st[j][2]]
    /\ last = [op |-> "init", job |-> 0]
    /\ prev = [op |-> "init", job |-> 0, err |-> "none"]
    /\ err = "none"
    /\ nops = 0
    /\ out = Idle
    /\ rin = Idle
    /\ rout = Idle

Correlates ==
    \E consensus \in BOOLEAN, strict \in BOOLEAN :
        \E mask \in [1..Len(ReadLoop.jobs) -> BOOLEAN] :
            Correlate(consensus, mask, strict)

CorrNext == Correlates

SpecCorr == CorrInit /\ [][CorrNext]_vars

(***************************************************************************)
(* The reduction of one file, for every stage and every series of up to    *)
(* MaxRows rows: rin is the stage and the file, rout what the stage's      *)
(* loading, slicing and averaging give for it.                             *)
(***************************************************************************)
Samples == {F(3), F(7), F(-5)}

SeriesOf(n) ==
    {[i \in 1..n |-> <<F(i), v[i], v[n + 1 - i]>>] : v \in [1..n -> Samples]}

AllSeries == UNION {SeriesOf(n) : n \in 0..MaxRows}

\* the directory holding only the file rin describes
OneFileDir(in) ==
    [nm \in (IF in.present THEN {FileName(in.stage, loads[1])} ELSE {}) |-> in.rows]

ReduceOne ==
    /\ ~rout.done
    /\ rout' = [done |-> TRUE,
                res |-> ReduceFile(rin.stage, OneFileDir(rin),
                                   FileName(rin.stage, loads[1]))]
    /\ UNCHANGED <<sim, doc, last, prev, err, nops, njobs, sp, out, rin>>

ReduceInit ==
    /\ rin \in {[stage |-> st, present |-> TRUE, rows |-> rows] :
                    st \in Stages, rows \in AllSeries}
               \cup {[stage |-> st, present |-> FALSE, rows |-> <<>>] : st \in Stages}
    /\ rout = Idle
    /\ njobs = 0
    /\ sp = <<>>
    /\ sim = <<>>
    /\ doc = <<>>
    /\ last = [op |-> "init", job |-> 0]
    /\ prev = [op |-> "init", job |-> 0, err |-> "none"]
    /\ err = "none"
    /\ nops = 0
    /\ out = Idle

ReduceNext == ReduceOne

SpecReduce == ReduceInit /\ [][ReduceNext]_vars

(***************************************************************************)
(* Properties.                                                             *)
(***************************************************************************)
Range(w) == {w[i] : i \in 1..Len(w)}

FMin(w) == CHOOSE x \in Range(w) : \A y \in Range(w) : FLe(x, y)

FMax(w) == CHOOSE x \in Range(w) : \A y \in Range(w) : FLe(y, x)

\* floor(n * f) for the skip fraction the stage is said to use: 0.5 for the
\* energy series, 0.6 for the others
SaidSkip(stage, n) == IF stage = "energy" THEN n \div 2 ELSE (3 * n) \div 5

\* the values the stage is said to average: column c of the rows from index k
\* on, and for the energy total the sum of columns 1 and 2
SaidValue(stage, row, c) ==
    IF c = 3 THEN FAdd(row[2], row[3]) ELSE row[c + 1]

TailIsSaid(in, res) ==
    LET n == Len(in.rows)
        k == SaidSkip(in.stage, n)
    IN  \A c \in 1..Len(res.win) :
            /\ Len(res.win[c]) = n - k
            /\ Len(res.win[c]) > 0
            /\ \A i \in 1..(n - k) :
                   res.win[c][i] = SaidValue(in.stage, in.rows[k + i], c)

Reduced5 == rout.done /\ rin.present /\ Len(rin.rows) >= 5

\* C3 as stated: for a series of n >= 5 rows the stage averages exactly the
\* rows floor(n*f) .. n-1 (f = 0.6, or 0.5 for the energy), the window is not
\* empty, and the stored mean lies between the least and the greatest value of
\* the window
C3_MeanWithinMinMax ==
    Reduced5 =>
        /\ rout.res.err = "none"
        /\ TailIsSaid(rin, rout.res)
        /\ \A c \in 1..Len(rout.res.win) :
               /\ FLe(FMin(rout.res.win[c]), rout.res.mean[c])
               /\ FLe(rout.res.mean[c], FMax(rout.res.win[c]))

\* the rounded mean of m copies of x
MeanOfCopies(x, m) == mean([i \in 1..m |-> x])

\* C3 amended: for a series of n >= 5 rows the stage averages exactly the rows
\* floor(n*f) .. n-1, the window is not empty, and the stored mean, a rounded
\* sum divided by the count, lies between the rounded mean of as many copies
\* of the least value and that of as many copies of the greatest value
C3_TailWindow ==
    Reduced5 =>
        /\ rout.res.err = "none"
        /\ TailIsSaid(rin, rout.res)
        /\ \A c \in 1..Len(rout.res.win) :
               LET w == rout.res.win[c]
               IN  /\ FLe(MeanOfCopies(FMin(w), Len(w)), rout.res.mean[c])
                   /\ FLe(rout.res.mean[c], MeanOfCopies(FMax(w), Len(w)))

\* a series of six rows is reduced by a stage with two columns, and the mean
\* of one window lies strictly between its least and its greatest value
C3_Witness ==
    /\ Reduced5
    /\ Len(rin.rows) = 6
    /\ rout.res.err = "none"
    /\ Len(rout.res.win) >= 2
    /\ \E c \in 1..Len(rout.res.win) :
           /\ ~FLe(rout.res.mean[c], FMin(rout.res.win[c]))
           /\ ~FLe(FMax(rout.res.win[c]), rout.res.mean[c])

(***************************************************************************)
(* Properties of the per-job stages.                                       *)
(***************************************************************************)
AggregatorOps == {"calc_S2_shear", "calc_tilt_shear", "calc_interdigitation"}

EnergyOps == {EnergyOp(loads[i]) : i \in 1..Len(loads)}

StageOps == AggregatorOps \cup {"log_cof"} \cup EnergyOps

\* the keys each stage is said to write
SaidKeys(op) ==
    CASE op = "calc_S2_shear" -> {"S2_bottom", "S2_top"}
      [] op = "calc_tilt_shear" -> {"tilt_bottom", "tilt_top"}
      [] op = "calc_interdigitation" -> {"interdigitation"}
      [] op = "log_cof" -> {"COF", "intercept"}
      [] op = "log_interaction_energy_5nN" ->
           {"shear_5nN-qq", "shear_5nN-lj", "shear_5nN-Etotal"}
      [] op = "log_interaction_energy_15nN" ->
           {"shear_15nN-qq", "shear_15nN-lj", "shear_15nN-Etotal"}
      [] op = "log_interaction_energy_25nN" ->
           {"shear_25nN-qq", "shear_25nN-lj", "shear_25nN-Etotal"}
      [] OTHER -> {}

LoadKeyed == {"S2_bottom", "S2_top", "tilt_bottom", "tilt_top", "interdigitation"}

SaidLoadKeys == {"5nN", "15nN", "25nN"}

\* the stage and the file of each of the loads a stage reads, in order
StageOf(op) ==
    CASE op = "calc_S2_shear" -> "S2"
      [] op = "calc_tilt_shear" -> "tilt"
      [] op = "calc_interdigitation" -> "interdigitation"
      [] op = "log_cof" -> "friction"
      [] OTHER -> "energy"

LoadsOf(op) ==
    CASE op = "log_interaction_energy_5nN" -> <<5>>
      [] op = "log_interaction_energy_15nN" -> <<15>>
      [] op = "log_interaction_energy_25nN" -> <<25>>
      [] OTHER -> loads

\* job j's run of op cannot reduce the file of the load with index i, and can
\* reduce those of the loads before it
StopsAt(op, j, i) ==
    /\ Reduce(j, StageOf(op), FileName(StageOf(op), LoadsOf(op)[i])).err # "none"
    /\ \A k \in 1..(i - 1) :
           Reduce(j, StageOf(op), FileName(StageOf(op), LoadsOf(op)[k])).err = "none"

\* the series that stops job j's run of op has no row
StopsAtEmpty(op, j) ==
    \E i \in 1..Len(LoadsOf(op)) :
        /\ StopsAt(op, j, i)
        /\ FileName(StageOf(op), LoadsOf(op)[i]) \in DOMAIN Directory[sim[j]]
        /\ Len(Directory[sim[j]][FileName(StageOf(op), LoadsOf(op)[i])]) = 0

\* the items the stage op assigns for job j when every file can be reduced
ItemsOf(op, j) ==
    CASE op = "calc_S2_shear" -> S2Items(PerLoad("S2", j))
      [] op = "calc_tilt_shear" -> TiltItems(PerLoad("tilt", j))
      [] op = "calc_interdigitation" ->
           InterdigitationItems(PerLoad("interdigitation", j))
      [] op = "log_cof" -> CofItems(PerLoad("friction", j))
      [] OTHER ->
           EnergyItems(ShearName(LoadsOf(op)[1]),
                       Reduce(j, "energy", FileName("energy", LoadsOf(op)[1])))

Reducible(op, j) == \A i \in 1..Len(LoadsOf(op)) : ~StopsAt(op, j, i)

\* the document d holds every key of the stage with the value the run computed
AllNew(op, j, d) ==
    /\ Reducible(op, j)
    /\ \A n \in 1..Len(ItemsOf(op, j)) :
           /\ ItemsOf(op, j)[n][1] \in DOMAIN d
           /\ d[ItemsOf(op, j)[n][1]] = ItemsOf(op, j)[n][2]

\* C1 as stated: a stage that fails leaves the job's document as it was, or
\* with all of the stage's keys holding their new values, never with only some
\* of them updated
C1_AllOrNothing ==
    [][(last'.op \in StageOps /\ err' # "none") =>
          \/ doc'[last'.job] = doc[last'.job]
          \/ AllNew(last'.op, last'.job, doc'[last'.job])]_vars

\* C2 as stated: a stage whose series has no row fails with
\* InsufficientDataError and writes nothing into the document
C2_InsufficientData ==
    [][(/\ last'.op \in StageOps
        /\ err' # "AnalysisError"
        /\ StopsAtEmpty(last'.op, last'.job)) =>
          (err' = "InsufficientDataError" /\ doc' = doc)]_vars

\* C5: when an aggregator stage has completed on a job and is run again at
\* once on the same job and the same files, and completes, the document after
\* the second run equals the document after the first, and each mapping of the
\* stage has exactly one entry per load
C5_Idempotent ==
    [][(/\ last.op \in AggregatorOps
        /\ err = "none"
        /\ last' = last
        /\ err' = "none") =>
          /\ doc' = doc
          /\ \A k \in SaidKeys(last.op) :
                 /\ k \in DOMAIN doc'[last.job]
                 /\ DOMAIN doc'[last.job][k] = SaidLoadKeys
                 /\ Cardinality(DOMAIN doc'[last.job][k]) = Len(loads)]_vars

\* calc_S2_shear has completed twice in a row on one job
C5_Witness ==
    /\ last.op = "calc_S2_shear"
    /\ err = "none"
    /\ prev = [op |-> last.op, job |-> last.job, err |-> "none"]
    /\ "S2_top" \in DOMAIN doc[last.job]

\* C9: every load-keyed mapping present in a document has the keys 5nN, 15nN
\* and 25nN and no other, so that all of them have the same key set and the
\* keys the cross-job correlation reads are present
C9_SameLoadKeys ==
    \A j \in Jobs : \A k \in LoadKeyed \cap DOMAIN doc[j] :
        /\ DOMAIN doc[j][k] = SaidLoadKeys
        /\ \A k2 \in LoadKeyed \cap DOMAIN doc[j] :
               DOMAIN doc[j][k2] = DOMAIN doc[j][k]
        /\ (k = "interdigitation" => {"5nN", "25nN"} \subseteq DOMAIN doc[j][k])

\* two aggregation stages have completed on one job
C9_Witness ==
    \E j \in Jobs :
        /\ {"S2_bottom", "S2_top", "interdigitation"} \subseteq DOMAIN doc[j]
        /\ err = "none"
        /\ nops = 2

\* C10: a step never removes a key of a document, changes or adds only keys
\* of the stage that ran and only in the document of the job it ran on, and
\* leaves the statepoints as they were
C10_Frame ==
    [][/\ sp' = sp
       /\ \A j \in Jobs :
              /\ DOMAIN doc[j] \subseteq DOMAIN doc'[j]
              /\ \A k \in DOMAIN doc'[j] :
                     (k \notin DOMAIN doc[j] \/ doc'[j][k] # doc[j][k]) =>
                         (j = last'.job /\ k \in SaidKeys(last'.op))]_vars

\* log_cof has completed on a job whose document held the keys of
\* calc_S2_shear, which it still holds, while the other job's document is empty
C10_Witness ==
    /\ last.op = "log_cof"
    /\ err = "none"
    /\ prev.op = "calc_S2_shear"
    /\ prev.job = last.job
    /\ DOMAIN doc[last.job] = {"S2_bottom", "S2_top", "COF", "intercept"}
    /\ \E j \in Jobs : j # last.job /\ DOMAIN doc[j] = {}

(***************************************************************************)
(* Properties of the cross-job correlation.                                *)
(***************************************************************************)
\* the two stages the script depends on have completed on job j
HasBoth(j) == "interdigitation" \in DOMAIN doc[j] /\ "COF" \in DOMAIN doc[j]

Produced == out.lr \/ out.ransac \/ out.printed \/ out.plot

\* C4: when the script has ended, whatever it produced (a fitted regression,
\* the outlier table, the plot) it produced after reading every job of the
\* project, and it produced nothing if some job's document lacks
\* 'interdigitation' or 'COF'
C4_Barrier ==
    out.done =>
        /\ (Produced => out.read = njobs)
        /\ ((\E j \in Jobs : ~HasBoth(j)) => ~Produced)

\* the script has ended on a project of three jobs of which the first is
\* complete and a later one is not: it has read a part of the project
C4_Witness ==
    /\ out.done
    /\ njobs = 3
    /\ HasBoth(1)
    /\ \E j \in Jobs : ~HasBoth(j)
    /\ out.read = 1
    /\ err = "KeyError"

OutlierJobs == {i \in 1..Len(out.outlier_mask) : out.outlier_mask[i]}

\* the k-th job, in iteration order, whose outlier flag is true
KthOutlier(k) ==
    CHOOSE i \in OutlierJobs : Cardinality({i2 \in OutlierJobs : i2 <= i}) = k

\* C6: when RANSAC has been fitted, both masks have one entry per job of the
\* project, each job is an inlier or an outlier and not both, and the table
\* lists the terminal groups of the outlier jobs and of no other, in job order
C6_Partition ==
    (out.done /\ out.ransac) =>
        /\ Len(out.inlier_mask) = njobs
        /\ Len(out.outlier_mask) = njobs
        /\ \A i \in Jobs : out.inlier_mask[i] # out.outlier_mask[i]
        /\ Len(out.table) = Cardinality(OutlierJobs)
        /\ \A k \in 1..Len(out.table) :
               out.table[k] = sp[KthOutlier(k)].terminal_groups

\* the table of a project of three jobs lists the first and the third
C6_Witness ==
    /\ out.done
    /\ out.ransac
    /\ njobs = 3
    /\ out.inlier_mask = <<FALSE, TRUE, FALSE>>
    /\ out.table = <<sp[1].terminal_groups, sp[3].terminal_groups>>

\* C8 as stated: when fewer than 3 jobs of the project provide both x and y,
\* the script ends with InsufficientDataError and has fitted no regression,
\* printed no table and written no plot
C8_TooFewJobs ==
    (out.done /\ Cardinality({j \in Jobs : Readable(doc[j])}) < 3) =>
        (err = "InsufficientDataError" /\ ~Produced)

====
